---- MODULE Spec2Model ----
(***************************************************************************)
(* A model of pysuca.utils.write_tei (src/pysuca/utils.py): the element    *)
(* classifier _iter, the attribute canonicalizer _sort_attrs, the          *)
(* paragraph wrapper _format_paragraph, the recursive formatter            *)
(* _format_texts._format and the final serialization and file write.       *)
(*                                                                         *)
(* Strings are sequences of one-character strings.  A qualified tag is     *)
(* the pair <<namespace, local name>>.  An element is a node number; the   *)
(* tree is held in the functions tag, text, attrib and kids.               *)
(***************************************************************************)
EXTENDS Integers, Sequences, FiniteSets

VARIABLES
    tag,        \* node -> qualified tag
    text,       \* node -> element text (None or a string)
    attrib,     \* node -> ordered attribute mapping, a sequence of <<name, value>>
    kids,       \* node -> sequence of child nodes, in document order
    padding,    \* write_tei's padding argument
    rm_empty,   \* write_tei's rm_empty argument
    run,        \* which call of write_tei on this tree is in progress (1 or 2)
    pc,         \* position of the call
    err,        \* the exception that ended the call, or "none"
    gen,        \* the suspended generator _iter
    stack,      \* the frames of _format, innermost last
    warned,     \* tags passed to warnings.warn, in order
    yields,     \* what _iter has yielded: run, node, category, tag before and after
    file,       \* the destination file
    file0,      \* the destination file as it was when the current call began
    out1,       \* the bytes the first call wrote
    bytes,      \* the result of etree.tostring in the current call
    wrapCall,   \* one call of _format_paragraph: arguments and result
    sortCall    \* one call of _sort_attrs: argument and result

vars == <<tag, text, attrib, kids, padding, rm_empty, run, pc, err, gen, stack,
          warned, yields, file, file0, out1, bytes, wrapCall, sortCall>>

treeVars == <<tag, text, attrib, kids, padding, rm_empty, run, pc, err, gen, stack,
              warned, yields, file, file0, out1, bytes>>

-----------------------------------------------------------------------------
(* Bounds of the model *)

MaxNodes == 5
MaxWords == 13
MaxAttrs == 4
MaxKids == 2

-----------------------------------------------------------------------------
(* Strings *)

NL == "\n"
SP == " "
TAB == "\t"

\* The whitespace of str.strip() and str.split() that occurs in the model's texts.
Whitespace == {SP, NL, TAB}

\* " " * k (empty when k <= 0)
Spaces(k) == IF k <= 0 THEN <<>> ELSE [i \in 1..k |-> SP]

\* str.replace(c, "")
Remove(s, c) == SelectSeq(s, LAMBDA x : x # c)

\* the positions of s that hold a character outside (inside = FALSE) or inside
\* the set chars
Positions(s, chars, inside) == {i \in 1..Len(s) : (s[i] \in chars) = inside}

\* the smallest element of a set of positions
Min(ps) == CHOOSE i \in ps : \A j \in ps : i <= j

\* str.lstrip(): from the first character that is not whitespace
LStrip(s) ==
    LET ps == Positions(s, Whitespace, FALSE) IN
    IF ps = {} THEN <<>> ELSE SubSeq(s, Min(ps), Len(s))

\* str.rstrip(): up to the last character that is not whitespace
RStrip(s) ==
    LET back == {Len(s) + 1 - i : i \in Positions(s, Whitespace, FALSE)} IN
    IF back = {} THEN <<>> ELSE SubSeq(s, 1, Len(s) + 1 - Min(back))

\* str.strip()
Strip(s) == RStrip(LStrip(s))

RECURSIVE Split(_)
\* str.split(): the maximal runs of non-whitespace characters, one run at a time
Split(s) ==
    LET t == LStrip(s) IN
    IF t = <<>> THEN <<>>
    ELSE LET ws  == Positions(t, Whitespace, TRUE)
             end == IF ws = {} THEN Len(t) + 1 ELSE Min(ws)
         IN  <<SubSeq(t, 1, end - 1)>> \o Split(SubSeq(t, end, Len(t)))

RECURSIVE SplitLines(_)
\* str.split("\n"): the pieces between the line breaks, empty pieces included
SplitLines(s) ==
    LET breaks == Positions(s, {NL}, TRUE) IN
    IF breaks = {} THEN <<s>>
    ELSE <<SubSeq(s, 1, Min(breaks) - 1)>> \o SplitLines(SubSeq(s, Min(breaks) + 1, Len(s)))

-----------------------------------------------------------------------------
(* _format_paragraph *)

\* the row length beyond which a row is flushed
RowLimit == 60

\* the for loop over words: s is the output so far, row the row being built
RECURSIVE PackWords(_, _, _, _, _)
PackWords(words, i, row, s, spaces) ==
    IF i > Len(words) THEN [s |-> s, row |-> row]
    ELSE IF Len(row) > RowLimit
         THEN PackWords(words, i + 1, words[i],
                        s \o Strip(row) \o <<NL>> \o Spaces(spaces), spaces)
         ELSE PackWords(words, i + 1, row \o <<SP>> \o words[i], s, spaces)

_format_paragraph(paragraph, spaces) ==
    LET words == Split(Strip(Remove(paragraph, NL)))
        r == PackWords(words, 1, <<>>, <<NL>> \o Spaces(spaces), spaces)
    IN  IF Len(Strip(r.row)) > 0
        THEN r.s \o Strip(r.row) \o <<NL>> \o Spaces(spaces - 2)
        ELSE r.s

-----------------------------------------------------------------------------
(* Elements *)

TEI_NS == "{http://www.tei-c.org/ns/1.0}"
NoNS == ""

\* ns + local, or a bare local name when ns is NoNS
QName(ns, local) == <<ns, local>>

None == [none |-> TRUE, s |-> <<>>]
Str(s) == [none |-> FALSE, s |-> s]

Root == 1
NoNode == 0

Nodes == DOMAIN kids

Range(q) == {q[i] : i \in DOMAIN q}

IndexOf(q, x) == CHOOSE i \in DOMAIN q : q[i] = x

\* elem.getparent(): NoNode when the element has none
getparent(n) ==
    IF \E p \in Nodes : n \in Range(kids[p])
    THEN CHOOSE p \in Nodes : n \in Range(kids[p])
    ELSE NoNode

\* the first child an ElementChildIterator starts from
FirstChild(n) == IF kids[n] = <<>> THEN NoNode ELSE kids[n][1]

\* NextSibling with a fault: the iterator steps over the sibling that follows
NextSiblingSkip(n) ==
    LET p == getparent(n) IN
    IF p = NoNode THEN NoNode
    ELSE LET i == IndexOf(kids[p], n) IN
         IF i + 1 < Len(kids[p]) THEN kids[p][i + 2] ELSE NoNode

\* the following sibling, which the iterator stores when it hands out n
NextSibling(n) ==
    LET p == getparent(n) IN
    IF p = NoNode THEN NoNode
    ELSE LET i == IndexOf(kids[p], n) IN
         IF i < Len(kids[p]) THEN kids[p][i + 1] ELSE NoNode

\* RemoveChild with a fault: the siblings after the element go with it
RemoveWithFollowing(k, p, n) ==
    [k EXCEPT ![p] = SubSeq(k[p], 1, IndexOf(k[p], n) - 1)]

\* parent.remove(elem)
RemoveChild(k, p, n) ==
    [k EXCEPT ![p] = SelectSeq(k[p], LAMBDA x : x # n)]

RECURSIVE Subtree(_, _)
RECURSIVE SubtreeList(_, _)
\* n and its descendants under the child function k, in document order
Subtree(k, n) == <<n>> \o SubtreeList(k, k[n])
SubtreeList(k, ns) ==
    IF ns = <<>> THEN <<>> ELSE Subtree(k, Head(ns)) \o SubtreeList(k, Tail(ns))

\* root.findall(".//{ns}div"): the descendant divisions, in document order
findall(root) ==
    SelectSeq(Tail(Subtree(kids, root)), LAMBDA n : tag[n] = QName(TEI_NS, "div"))

RECURSIVE tostring(_)
RECURSIVE tostringList(_)
\* etree.tostring: tag, attributes, text and children of every element, in order
tostring(n) == <<tag[n], attrib[n], text[n], tostringList(kids[n])>>
tostringList(ns) ==
    IF ns = <<>> THEN <<>> ELSE <<tostring(Head(ns))>> \o tostringList(Tail(ns))

-----------------------------------------------------------------------------
(* _sort_attrs *)

\* the attribute names of the model, in the order Python compares strings
NameOrder == <<"bar", "foo", "subtype", "type", "xml:id">>
Names == Range(NameOrder)
Rank(name) == IndexOf(NameOrder, name)

custom_order == <<"xml:id", "type", "subtype">>

RECURSIVE InsertSorted(_, _)
InsertSorted(item, q) ==
    IF q = <<>> THEN <<item>>
    ELSE IF Rank(item[1]) <= Rank(Head(q)[1]) THEN <<item>> \o q
         ELSE <<Head(q)>> \o InsertSorted(item, Tail(q))

RECURSIVE Sorted(_)
\* sorted(elem.attrib.items()): a list
Sorted(items) ==
    IF items = <<>> THEN <<>> ELSE InsertSorted(Head(items), Sorted(Tail(items)))

\* type(attrs) == list: sorted() returns a list whatever it is given
TypeIsList(attrs) == TRUE

\* lines 81-86 on the list attrs: no string of custom_order is an item of a list
\* of pairs, so the first loop does nothing, and attrs.items() raises
\* AttributeError before the element's attributes are touched
ItemsOfList(a, attrs) == [err |-> "AttributeError", attrib |-> a]

\* _sort_attrs on an element whose attribute mapping is a: the exception raised
\* ("none" when it returns) and the attribute mapping the element is left with
_sort_attrs(a) ==
    LET attrs == Sorted(a) IN
    IF Len(attrs) = 0 \/ TypeIsList(attrs)
    THEN [err |-> "none", attrib |-> a]
    ELSE ItemsOfList(a, attrs)

-----------------------------------------------------------------------------
(* _iter: the classification of one child *)

Categories == {"u", "note", "pb", "seg", "p", "span", "title", "head", "author"}
Aliases == {"pb", "u", "p", "span", "title", "head"}

Yield(cat, t) == [cat |-> cat, tag |-> t, known |-> TRUE]

\* Classify with a fault: an alias is classified but its tag is left as it was
ClassifyNoRewrite(t) ==
    IF t[2] \in Categories /\ (t[1] = TEI_NS \/ (t[1] = NoNS /\ t[2] \in Aliases))
    THEN Yield(t[2], t)
    ELSE [cat |-> "None", tag |-> t, known |-> FALSE]

\* the if/elif chain of lines 96-134: the category, the tag the element is left
\* with, and whether the tag was recognized
Classify(t) ==
    LET ns == TEI_NS IN
    IF t = QName(ns, "u") THEN Yield("u", t)
    ELSE IF t = QName(ns, "note") THEN Yield("note", t)
    ELSE IF t = QName(ns, "pb") THEN Yield("pb", t)
    ELSE IF t = QName(NoNS, "pb") THEN Yield("pb", QName(ns, "pb"))
    ELSE IF t = QName(ns, "seg") THEN Yield("seg", t)
    ELSE IF t = QName(NoNS, "u") THEN Yield("u", QName(ns, "u"))
    ELSE IF t = QName(NoNS, "p") THEN Yield("p", QName(ns, "p"))
    ELSE IF t = QName(ns, "p") THEN Yield("p", t)
    ELSE IF t = QName(NoNS, "span") THEN Yield("span", QName(ns, "span"))
    ELSE IF t = QName(ns, "span") THEN Yield("span", t)
    ELSE IF t = QName(NoNS, "title") THEN Yield("title", QName(ns, "title"))
    ELSE IF t = QName(ns, "title") THEN Yield("title", t)
    ELSE IF t = QName(NoNS, "head") THEN Yield("head", QName(ns, "head"))
    ELSE IF t = QName(ns, "head") THEN Yield("head", t)
    ELSE IF t = QName(ns, "author") THEN Yield("author", t)
    ELSE [cat |-> "None", tag |-> t, known |-> FALSE]

-----------------------------------------------------------------------------
(* The call of write_tei *)

NoGen == [divs |-> <<>>, div |-> NoNode, node |-> NoNode, snap |-> <<>>, seen |-> <<>>]

NoFile == [state |-> "absent", content |-> <<>>]

\* line 155: the text is a string with something left after strip()
HasWords(t) == ~t.none /\ Len(Strip(t.s)) > 0

\* IsEmpty with a fault: only the empty string counts as no text
IsEmptyBlank(n) == ~text[n].none /\ text[n].s = <<>> /\ Len(kids[n]) = 0

\* line 161: elem.text == None and len(elem) == 0
IsEmpty(n) == text[n].none /\ Len(kids[n]) = 0

\* lines 154-158: _format canonicalizes the attributes of elem, wraps its text and
\* starts the iteration over its children
Frame(elem, pad) ==
    [elem |-> elem, padding |-> pad, node |-> FirstChild(elem),
     snap |-> kids[elem], seen |-> <<>>]

\* the call _format(elem, rm_empty, padding=pad) as far as its loop; stk is the
\* stack of the caller
EnterFormat(elem, pad, stk) ==
    LET r == _sort_attrs(attrib[elem]) IN
    /\ attrib' = [attrib EXCEPT ![elem] = r.attrib]
    /\ IF r.err # "none"
       THEN /\ pc' = "error"
            /\ err' = r.err
            /\ stack' = stk
            /\ UNCHANGED text
       ELSE /\ text' = [text EXCEPT ![elem] =
                           IF HasWords(text[elem])
                           THEN Str(_format_paragraph(text[elem].s, pad + 2))
                           ELSE text[elem]]
            /\ stack' = Append(stk, Frame(elem, pad))
            /\ UNCHANGED <<pc, err>>

RECURSIVE SkipChildless(_)
\* the divisions left once those without children have been passed over
SkipChildless(divs) ==
    IF divs = <<>> THEN <<>>
    ELSE IF kids[Head(divs)] = <<>> THEN SkipChildless(Tail(divs)) ELSE divs

\* next() on the generator, up to the element it is about to classify: the
\* generator after the step and that element (NoNode at StopIteration)
GenNext(g) ==
    IF g.node # NoNode
    THEN [g |-> [g EXCEPT !.node = NextSibling(g.node), !.seen = Append(g.seen, g.node)],
          elem |-> g.node]
    ELSE LET rest == SkipChildless(g.divs) IN
         IF rest = <<>>
         THEN [g |-> [g EXCEPT !.divs = <<>>], elem |-> NoNode]
         ELSE LET d == Head(rest) IN
              [g |-> [divs |-> Tail(rest), div |-> d, node |-> NextSibling(kids[d][1]),
                      snap |-> kids[d], seen |-> <<kids[d][1]>>],
               elem |-> kids[d][1]]

\* write_tei is called: _format_texts starts the generator, which evaluates findall
Call ==
    /\ pc = "start"
    /\ pc' = "format"
    /\ gen' = [NoGen EXCEPT !.divs = findall(Root)]
    /\ file0' = file
    /\ UNCHANGED <<tag, text, attrib, kids, padding, rm_empty, run, err, stack, warned,
                   yields, file, out1, bytes, wrapCall, sortCall>>

\* line 164: the for loop asks the generator for its next item and, for a
\* recognized element, calls _format on it; the item None cannot be unpacked
IterResume ==
    /\ pc = "format"
    /\ stack = <<>>
    /\ LET r == GenNext(gen)
           e == r.elem
       IN  /\ gen' = r.g
           /\ IF e = NoNode
              THEN /\ pc' = "tostring"
                   /\ UNCHANGED <<tag, text, attrib, stack, warned, yields, err>>
              ELSE LET c == Classify(tag[e]) IN
                   /\ yields' = Append(yields, [run |-> run, node |-> e, cat |-> c.cat,
                                                before |-> tag[e], after |-> c.tag])
                   /\ tag' = [tag EXCEPT ![e] = c.tag]
                   /\ IF c.known
                      THEN /\ EnterFormat(e, padding, stack)
                           /\ UNCHANGED warned
                      ELSE /\ warned' = Append(warned, tag[e])
                           /\ pc' = "error"
                           /\ err' = "TypeError"
                           /\ UNCHANGED <<text, attrib, stack>>
    /\ UNCHANGED <<kids, padding, rm_empty, run, file, file0, out1, bytes,
                   wrapCall, sortCall>>

\* lines 158-160: the loop over the children of the innermost _format hands out
\* the next child and calls _format on it, two columns deeper
FormatChild ==
    /\ pc = "format"
    /\ stack # <<>>
    /\ LET top == stack[Len(stack)]
           child == top.node
       IN  /\ child # NoNode
           /\ EnterFormat(child, top.padding + 2,
                          [stack EXCEPT ![Len(stack)] =
                              [top EXCEPT !.node = NextSibling(child),
                                          !.seen = Append(top.seen, child)]])
    /\ UNCHANGED <<tag, kids, padding, rm_empty, run, gen, warned, yields,
                   file, file0, out1, bytes, wrapCall, sortCall>>

\* lines 161-162: the loop is over; an empty element is removed from its parent
\* when rm_empty is set, and _format returns
FormatReturn ==
    /\ pc = "format"
    /\ stack # <<>>
    /\ LET top == stack[Len(stack)]
           elem == top.elem
       IN  /\ top.node = NoNode
           /\ stack' = SubSeq(stack, 1, Len(stack) - 1)
           /\ IF IsEmpty(elem) /\ rm_empty
              THEN IF getparent(elem) = NoNode
                   THEN /\ pc' = "error"
                        /\ err' = "AttributeError"
                        /\ UNCHANGED kids
                   ELSE /\ kids' = RemoveChild(kids, getparent(elem), elem)
                        /\ UNCHANGED <<pc, err>>
              ELSE UNCHANGED <<kids, pc, err>>
    /\ UNCHANGED <<tag, text, attrib, padding, rm_empty, run, gen, warned, yields,
                   file, file0, out1, bytes, wrapCall, sortCall>>

\* lines 172-177: the tree is serialized
ToString ==
    /\ pc = "tostring"
    /\ bytes' = tostring(Root)
    /\ pc' = "open"
    /\ UNCHANGED <<tag, text, attrib, kids, padding, rm_empty, run, err, gen, stack,
                   warned, yields, file, file0, out1, wrapCall, sortCall>>

\* OpenFile with a fault: the destination is opened while the tree is still
\* being formatted
OpenFileEarly ==
    /\ pc = "format"
    /\ file.state # "open"
    /\ file' = [state |-> "open", content |-> <<>>]
    /\ UNCHANGED <<tag, text, attrib, kids, padding, rm_empty, run, pc, err, gen, stack,
                   warned, yields, file0, out1, bytes, wrapCall, sortCall>>

\* line 178: open(file_, "wb") creates or truncates the destination, or fails
OpenFile ==
    /\ pc = "open"
    /\ \E ok \in BOOLEAN :
          IF ok
          THEN /\ file' = [state |-> "open", content |-> <<>>]
               /\ pc' = "write"
               /\ UNCHANGED err
          ELSE /\ pc' = "error"
               /\ err' = "OSError"
               /\ UNCHANGED file
    /\ UNCHANGED <<tag, text, attrib, kids, padding, rm_empty, run, gen, stack,
                   warned, yields, file0, out1, bytes, wrapCall, sortCall>>

\* line 179: the bytes are written and the with statement closes the file; or
\* the write or the close fails, and the file is left closed with only a part
\* of the bytes (possibly none) in place of what it held
WriteFile ==
    /\ pc = "write"
    /\ \E ok \in BOOLEAN :
          IF ok
          THEN /\ file' = [state |-> "closed", content |-> bytes]
               /\ pc' = "done"
               /\ UNCHANGED err
          ELSE /\ \E k \in 0..(Len(bytes) - 1) :
                     file' = [state |-> "closed", content |-> SubSeq(bytes, 1, k)]
               /\ pc' = "error"
               /\ err' = "OSError"
    /\ UNCHANGED <<tag, text, attrib, kids, padding, rm_empty, run, gen, stack,
                   warned, yields, file0, out1, bytes, wrapCall, sortCall>>

\* the caller calls write_tei again on the tree the first call left, with the
\* same padding and rm_empty
CallAgain ==
    /\ pc = "done"
    /\ run = 1
    /\ run' = 2
    /\ out1' = file.content
    /\ pc' = "start"
    /\ gen' = NoGen
    /\ UNCHANGED <<tag, text, attrib, kids, padding, rm_empty, err, stack, warned,
                   yields, file, file0, bytes, wrapCall, sortCall>>

Next ==
    \/ Call
    \/ IterResume
    \/ FormatChild
    \/ FormatReturn
    \/ ToString
    \/ OpenFile
    \/ WriteFile
    \/ CallAgain

-----------------------------------------------------------------------------
(* The trees and arguments write_tei is called with *)

Letters == <<"a", "b", "c", "d", "e", "f", "g">>

\* the i-th word of a sample text: wlen copies of one letter
Word(i, wlen) == [j \in 1..wlen |-> Letters[((i - 1) % Len(Letters)) + 1]]

RECURSIVE ParagraphFrom(_, _, _, _, _)
\* words i..n, a space between two words except sep after word sepAt
ParagraphFrom(i, n, wlen, sepAt, sep) ==
    IF i > n THEN <<>>
    ELSE Word(i, wlen)
         \o (IF i = n THEN <<>> ELSE IF i = sepAt THEN sep ELSE <<SP>>)
         \o ParagraphFrom(i + 1, n, wlen, sepAt, sep)

Paragraph(n, wlen, sepAt, sep) == ParagraphFrom(1, n, wlen, sepAt, sep)

Value(name) ==
    CASE name = "subtype" -> "x"
      [] name = "foo" -> "z"
      [] name = "type" -> "y"
      [] name = "xml:id" -> "i1"
      [] OTHER -> "w"

Item(name) == <<name, Value(name)>>

\* thirteen words of five letters, words 11 and 12 separated by a line break only
LongText == Paragraph(MaxWords, 5, 11, <<NL>>)

\* what a node below the root may be
Labels ==
    { [tag |-> QName(TEI_NS, "div"), text |-> None, attrib |-> <<>>],
      [tag |-> QName(TEI_NS, "u"), text |-> None,
       attrib |-> <<Item("subtype"), Item("foo"), Item("type"), Item("xml:id")>>],
      [tag |-> QName(NoNS, "u"), text |-> Str(LongText), attrib |-> <<Item("foo")>>],
      [tag |-> QName(TEI_NS, "note"), text |-> Str(<<SP>>), attrib |-> <<>>] }

RootTags == {QName(TEI_NS, "TEI"), QName(TEI_NS, "div")}

Paddings == {-2, 8}

RECURSIVE AncestorsOrSelf(_, _)
AncestorsOrSelf(par, j) == IF j = 1 THEN {1} ELSE {j} \cup AncestorsOrSelf(par, par[j])

\* the parent of every node 2..n of a tree whose nodes are numbered in document
\* order: node i hangs below node i-1 or one of its ancestors
ParentVectors(n) ==
    { par \in [2..n -> 1..(n - 1)] :
        \A i \in 2..n : par[i] < i /\ par[i] \in AncestorsOrSelf(par, i - 1) }

ChildrenOf(par, n, x) ==
    SelectSeq([i \in 1..n |-> i], LAMBDA i : i >= 2 /\ par[i] = x)

IdleWrap == [pc |-> "idle", paragraph |-> <<>>, spaces |-> 0, out |-> <<>>]
IdleSort == [pc |-> "idle", attrib |-> <<>>, out |-> <<>>, err |-> "none"]

\* the state of a call that has not begun
Fresh ==
    /\ run = 1
    /\ pc = "start"
    /\ err = "none"
    /\ gen = NoGen
    /\ stack = <<>>
    /\ warned = <<>>
    /\ yields = <<>>
    /\ file = NoFile
    /\ file0 = NoFile
    /\ out1 = <<>>
    /\ bytes = <<>>
    /\ wrapCall = IdleWrap
    /\ sortCall = IdleSort

Init ==
    /\ \E n \in 1..MaxNodes : \E par \in ParentVectors(n) :
       \E lab \in [2..n -> Labels] : \E rt \in RootTags :
          /\ kids = [x \in 1..n |-> ChildrenOf(par, n, x)]
          /\ tag = [x \in 1..n |-> IF x = Root THEN rt ELSE lab[x].tag]
          /\ text = [x \in 1..n |-> IF x = Root THEN None ELSE lab[x].text]
          /\ attrib = [x \in 1..n |-> IF x = Root THEN <<>> ELSE lab[x].attrib]
    /\ padding \in Paddings
    /\ rm_empty \in BOOLEAN
    /\ Fresh

Spec == Init /\ [][Next]_vars

-----------------------------------------------------------------------------
(* One division whose children carry every tag of the classifier; the first
   child has a child of its own *)

AllTags ==
    {QName(TEI_NS, c) : c \in Categories} \cup {QName(NoNS, a) : a \in Aliases}
    \cup {QName(NoNS, "foobar"), QName(NoNS, "note"), QName(TEI_NS, "div")}

InitClassify ==
    /\ \E k \in 1..MaxKids : \E t \in [1..k -> AllTags] :
          /\ kids = [x \in 1..(k + 3) |->
                        IF x = 1 THEN <<2>>
                        ELSE IF x = 2 THEN [i \in 1..k |-> i + 2]
                        ELSE IF x = 3 THEN <<k + 3>> ELSE <<>>]
          /\ tag = [x \in 1..(k + 3) |->
                       IF x = 1 THEN QName(TEI_NS, "TEI")
                       ELSE IF x = 2 THEN QName(TEI_NS, "div")
                       ELSE IF x = k + 3 THEN QName(NoNS, "seg") ELSE t[x - 2]]
          /\ text = [x \in 1..(k + 3) |-> IF x <= 2 THEN None ELSE Str(<<"a", SP, "b">>)]
          /\ attrib = [x \in 1..(k + 3) |-> <<>>]
    /\ padding \in Paddings
    /\ rm_empty \in BOOLEAN
    /\ Fresh

SpecClassify == InitClassify /\ [][Next]_vars

-----------------------------------------------------------------------------
(* Single calls of _format_paragraph and of _sort_attrs *)

\* no tree and no call of write_tei
NoTree ==
    /\ kids = <<>> /\ tag = <<>> /\ text = <<>> /\ attrib = <<>>
    /\ padding = 8 /\ rm_empty = TRUE
    /\ run = 1 /\ pc = "idle" /\ err = "none" /\ gen = NoGen /\ stack = <<>>
    /\ warned = <<>> /\ yields = <<>> /\ file = NoFile /\ file0 = NoFile
    /\ out1 = <<>> /\ bytes = <<>>

WordLens == {2, 5}
Separators == {<<NL>>, <<SP, NL>>, <<TAB>>, <<SP, SP>>}
Margins == {<<>>, <<SP>>, <<NL, SP>>}
Indents == {0, 2, 10}

InitWrap ==
    /\ NoTree
    /\ sortCall = IdleSort
    /\ \E n \in 0..MaxWords : \E wlen \in WordLens : \E sepAt \in 0..n :
       \E sep \in Separators : \E m \in Margins : \E spaces \in Indents :
          wrapCall = [pc |-> "call",
                      paragraph |-> m \o Paragraph(n, wlen, sepAt, sep) \o m,
                      spaces |-> spaces, out |-> <<>>]

WrapApply ==
    /\ wrapCall.pc = "call"
    /\ wrapCall' = [wrapCall EXCEPT !.pc = "done",
                       !.out = _format_paragraph(wrapCall.paragraph, wrapCall.spaces)]
    /\ UNCHANGED <<treeVars, sortCall>>

SpecWrap == InitWrap /\ [][WrapApply]_vars

InitSort ==
    /\ NoTree
    /\ wrapCall = IdleWrap
    /\ \E k \in 0..MaxAttrs : \E q \in [1..k -> Names] :
          /\ \A i, j \in 1..k : q[i] = q[j] => i = j
          /\ sortCall = [pc |-> "call", attrib |-> [i \in 1..k |-> Item(q[i])],
                         out |-> <<>>, err |-> "none"]

SortApply ==
    /\ sortCall.pc = "call"
    /\ sortCall' = [sortCall EXCEPT !.pc = "done",
                       !.out = _sort_attrs(sortCall.attrib).attrib,
                       !.err = _sort_attrs(sortCall.attrib).err]
    /\ UNCHANGED <<treeVars, wrapCall>>

SpecSort == InitSort /\ [][SortApply]_vars

-----------------------------------------------------------------------------
(* Properties *)

\* the elements of the tree that hangs from the root
Reachable == Range(Subtree(kids, Root))

\* n lies below a division that lies below the root: the elements _format reaches
BelowDivision(n) ==
    \E d \in Reachable \ {Root} :
       /\ tag[d] = QName(TEI_NS, "div")
       /\ n \in Range(Tail(Subtree(kids, d)))

IsPrefix(p, q) == Len(p) <= Len(q) /\ SubSeq(q, 1, Len(p)) = p

Top == stack[Len(stack)]

\* the innermost _format has finished its loop and is about to prune
PruneDue ==
    /\ pc = "format" /\ stack # <<>>
    /\ Top.node = NoNode /\ IsEmpty(Top.elem) /\ rm_empty

\* C1: once a warning for an unrecognized child of a division has been surfaced,
\* no error has been raised and the call is not ended by an exception (it goes
\* on to the next sibling and to the file write).
C1_UnrecognizedIsNonFatal ==
    warned # <<>> => (err = "none" /\ pc # "error")

\* the place of an attribute name in the canonical order: xml:id, type, subtype,
\* then every other name in lexicographic order
CanonicalPlace(name) ==
    IF name = "xml:id" THEN 1
    ELSE IF name = "type" THEN 2
    ELSE IF name = "subtype" THEN 3
    ELSE 3 + Rank(name)

\* C2: after _sort_attrs on an element with at least one attribute, the
\* attributes stand in canonical order: xml:id, type, subtype first, in that
\* order, then the rest by name.
C2_AttributesCanonical ==
    (sortCall.pc = "done" /\ Len(sortCall.attrib) >= 1) =>
        /\ Range(sortCall.out) = Range(sortCall.attrib)
        /\ \A i, j \in DOMAIN sortCall.out :
              i < j => CanonicalPlace(sortCall.out[i][1]) < CanonicalPlace(sortCall.out[j][1])

\* an element without text (absent, empty or blank) and without children
Hollow(n) == (text[n].none \/ Strip(text[n].s) = <<>>) /\ kids[n] = <<>>

\* C3 as stated: after a completed call with rm_empty, no element of the tree,
\* wherever it is, has both no text (absent, empty or blank) and no children.
C3_NoHollowElementAnywhere ==
    (pc = "done" /\ rm_empty) => \A n \in Reachable : ~Hollow(n)

\* an element with absent text and without children
Bare(n) == text[n].none /\ kids[n] = <<>>

\* C3 as amended: after a completed call with rm_empty, no element that lies
\* below a division below the root has both absent text (None) and no children.
C3_NoEmptyElementBelowDivision ==
    (pc = "done" /\ rm_empty) =>
        \A n \in Reachable : BelowDivision(n) => ~Bare(n)

\* a completed call with rm_empty that detached an element and left, below a
\* division, an element with blank text and no children
C3_Witness ==
    /\ pc = "done" /\ rm_empty
    /\ \E n \in Nodes : n \notin Reachable
    /\ \E n \in Reachable : BelowDivision(n) /\ Hollow(n)

\* C4: the words of the output of _format_paragraph are the words of its input,
\* in the same order, line breaks counting as whitespace between words.
C4_WordsPreserved ==
    wrapCall.pc = "done" => Split(wrapCall.out) = Split(wrapCall.paragraph)

\* the lines the loop flushed: all but the first (empty), the closing line and
\* what follows it
FlushedLines(out) ==
    LET lines == SplitLines(out) IN
    IF Len(lines) <= 3 THEN <<>> ELSE SubSeq(lines, 2, Len(lines) - 2)

\* C7: for a text of words of five characters each, no line of the output,
\* without its leading indentation, is longer than 65 characters, and every
\* line flushed by the loop had grown beyond 60 characters (one leading blank
\* included).
C7_LineWidthBounded ==
    (/\ wrapCall.pc = "done"
     /\ \A i \in DOMAIN Split(wrapCall.paragraph) : Len(Split(wrapCall.paragraph)[i]) = 5)
    => /\ \A i \in DOMAIN SplitLines(wrapCall.out) :
             Len(LStrip(SplitLines(wrapCall.out)[i])) <= RowLimit + 5
       /\ \A i \in DOMAIN FlushedLines(wrapCall.out) :
             Len(Strip(FlushedLines(wrapCall.out)[i])) >= RowLimit

\* C5: when a second call on the tree the first call left, with the same padding
\* and rm_empty, has completed, the tree serializes to the bytes the first call
\* wrote, and so does the file.
C5_SecondRunChangesNothing ==
    (run = 2 /\ pc = "done") =>
        /\ tostring(Root) = out1
        /\ file.content = out1

\* C6: every child with an alias tag is yielded with its category and leaves
\* with the same local name in the TEI namespace; every child with a namespaced
\* category tag is yielded with its category and its tag unchanged; in a second
\* classification every element is yielded with the category it had and no
\* tag changes.
C6_AliasRewrite ==
    \A i \in DOMAIN yields :
       LET y == yields[i] IN
       /\ (y.before[1] = NoNS /\ y.before[2] \in Aliases) =>
             (y.after = QName(TEI_NS, y.before[2]) /\ y.cat = y.before[2])
       /\ (y.before[1] = TEI_NS /\ y.before[2] \in Categories) =>
             (y.after = y.before /\ y.cat = y.before[2])
       /\ tag[y.node] = y.after
       /\ y.run = 2 =>
             /\ y.after = y.before
             /\ \E j \in 1..(i - 1) :
                   /\ yields[j].run = 1 /\ yields[j].node = y.node
                   /\ yields[j].cat = y.cat

\* an element whose alias tag the first call rewrote has been classified again
C6_Witness ==
    \E i, j \in DOMAIN yields :
       /\ yields[i].run = 2 /\ yields[j].run = 1
       /\ yields[j].node = yields[i].node
       /\ yields[j].before[1] = NoNS /\ yields[j].before[2] \in Aliases

\* C8: no call ends in the AttributeError of getparent() returning None, and
\* whenever _format is about to detach an element, the element has a parent.
C8_PruneHasParent ==
    /\ err # "AttributeError"
    /\ PruneDue => getparent(Top.elem) # NoNode

\* _format is about to detach an element of a tree whose root is a division
C8_Witness ==
    PruneDue /\ tag[Root] = QName(TEI_NS, "div")

\* a traversal hands out the children it started with, each once and in order,
\* and when it is over it has handed out every one of them
InOrder(t) == IsPrefix(t.seen, t.snap) /\ (t.node = NoNode => t.seen = t.snap)

\* with rm_empty, none of the children a finished traversal started with is
\* still there without text and children
AllPruned(t, parent) ==
    rm_empty => \A c \in Range(t.snap) : c \in Range(kids[parent]) => ~Bare(c)

\* the child a traversal handed out last
LastSeen(t) == t.seen[Len(t.seen)]

\* C9: the traversal of a division by _iter and the traversal of an element by
\* _format each hand every child present at its start to the formatter exactly
\* once and in document order, whatever is detached meanwhile: the children
\* handed out are a prefix of those present at the start, all of them once the
\* traversal is over, and the child handed out last is the element the next
\* deeper _format is working on; with rm_empty every empty childless child is
\* gone when the traversal is over.
C9_NoSiblingSkipped ==
    /\ InOrder(gen)
    /\ (pc = "format" /\ gen.div # NoNode /\ gen.node = NoNode /\ stack = <<>>)
          => AllPruned(gen, gen.div)
    /\ \A i \in DOMAIN stack : InOrder(stack[i])
    /\ (pc = "format" /\ stack # <<>> /\ Top.node = NoNode)
          => AllPruned(Top, Top.elem)
    /\ (pc = "format" /\ stack # <<>>)
          => (gen.seen # <<>> /\ LastSeen(gen) = stack[1].elem)
    /\ \A i \in 1..(Len(stack) - 1) :
          stack[i].seen # <<>> /\ LastSeen(stack[i]) = stack[i + 1].elem

\* the loop of _format over an element that started with two or more children
\* is over and every one of them has been detached
C9_Witness ==
    /\ pc = "format" /\ stack # <<>> /\ rm_empty
    /\ Top.node = NoNode
    /\ Len(Top.snap) >= 2 /\ kids[Top.elem] = <<>>

\* C10: while the call classifies, formats and serializes, and after
\* classification or formatting has raised, the destination file is as it was
\* when the call began; the file is open only once the bytes of the finished
\* tree exist.
C10_FileTouchedLast ==
    /\ pc \in {"format", "tostring", "open"} => file = file0
    /\ (pc = "error" /\ err # "OSError") => file = file0
    /\ file.state = "open" => (pc = "write" /\ bytes = tostring(Root))

\* the call ended in the TypeError of an unrecognized child after it had
\* rewritten a tag, and the file is as it was
C10_Witness ==
    /\ pc = "error" /\ err = "TypeError"
    /\ \E i \in DOMAIN yields : yields[i].before # yields[i].after
    /\ file = file0

====
